---- MODULE Spec2Model ----
(***************************************************************************)
(* Authentication / authorization contract of the delivery backend:        *)
(* signup, login, password reset, logout, and the staff / owner rules on   *)
(* products and orders (main.py, crud.py, models.py, schemas.py).          *)
(*                                                                         *)
(* The relational store is an external PostgreSQL database; its rows       *)
(* outlive the process, so the initial state draws the users table from a  *)
(* small set of schema-valid contents.  Every request runs in its own      *)
(* session: what a handler does not commit is discarded when the session   *)
(* is closed.  One time unit is half an hour.                              *)
(***************************************************************************)
EXTENDS Integers, FiniteSets, Sequences, TLC

\* ------------------------------------------------------------------ bounds
MaxTime == 1
MaxTokens == 2
MaxProducts == 1
MaxOrders == 1

\* --------------------------------------------------------------- constants
\* utils.ACCESS_TOKEN_EXPIRE_MINUTES (30 minutes), in half hours
AccessTTL == 1
\* timedelta(hours=1), in half hours
ResetTTL == 2

SECRET_KEY == "secret"

Usernames == {"admin", "alice", "bob"}
Emails == {"alice@x.com", "bob@x.com"}
\* the passwords a login tries, and the ones a signup or a reset chooses
Passwords == {"pw1", "pw2"}
NewPasswords == {"pw2"}
\* the salt a new digest gets (the stored digests carry "s1")
Salts == {"s2"}
ProductNames == {"tea"}

\* Python's None for a token column / an absent token
NoToken == [sub |-> "", exp |-> 0, sig |-> ""]

VARIABLES
    users,        \* table users: id -> row
    products,     \* table products: set of rows
    orders,       \* table orders: set of rows
    product_seq,  \* last id handed out for products
    order_seq,    \* last id handed out for orders
    blacklist,    \* dependencies' process-wide set of revoked token strings
    now,          \* the clock
    issued,       \* token strings clients hold
    last,         \* the last request and its response
    loggedOut,    \* history: tokens a logout call accepted
    consumed,     \* history: tokens a password-reset-confirm succeeded with
    everStored,   \* history: tokens ever stored in users.reset_token
    requested     \* history: tokens returned by password-reset-request

vars == <<users, products, orders, product_seq, order_seq, blacklist, now,
          issued, last, loggedOut, consumed, everStored, requested>>

\* ------------------------------------------------------------ utils (JWT, hash)
\* utils.get_password_hash: salted one-way digest of the plaintext
get_password_hash(password, salt) ==
    [alg |-> "bcrypt", salt |-> salt, digest |-> <<salt, password>>]

\* utils.verify_password: recompute with the digest's salt and compare
verify_password(password, hashed) ==
    get_password_hash(password, hashed.salt).digest = hashed.digest

\* utils.create_access_token(data={"sub": sub}, expires_delta): signed payload
create_access_token(sub, expire) ==
    [sub |-> sub, exp |-> expire, sig |-> SECRET_KEY]

\* jwt.decode(token, SECRET_KEY): JWTError on a bad signature or a passed expiry
jwt_decode(token, t) ==
    IF token.sig # SECRET_KEY THEN [ok |-> FALSE, sub |-> ""]
    ELSE IF token.exp < t THEN [ok |-> FALSE, sub |-> ""]
    ELSE [ok |-> TRUE, sub |-> token.sub]

\* a token no signing key of the process produced
Forged == [sub |-> "admin", exp |-> MaxTime + ResetTTL, sig |-> "forged"]

\* ------------------------------------------------------------------ session
\* get_db: the session is closed after the request; uncommitted changes are lost
session_close(committed, session) == committed

\* db.commit(): the session's pending changes become the stored rows
commit(committed, session) == session

\* --------------------------------------------------------------------- crud
get_user_by_username(db, username) ==
    IF \E i \in DOMAIN db : db[i].username = username
    THEN CHOOSE i \in DOMAIN db : db[i].username = username
    ELSE 0

get_user_by_email(db, email) ==
    IF \E i \in DOMAIN db : db[i].email = email
    THEN CHOOSE i \in DOMAIN db : db[i].email = email
    ELSE 0

\* the fields of a schemas.UserCreate request body
UserCreate(username, email, password) ==
    [username |-> username, email |-> email, password |-> password]

\* models.User: unique=True on username and on email
UniqueViolation(db, username, email) ==
    \E i \in DOMAIN db : db[i].username = username \/ db[i].email = email

\* crud.create_user: reads user.is_staff before the try block
create_user(db, user, salt, fail) ==
    IF "is_staff" \notin DOMAIN user
    THEN [raised |-> "AttributeError", user |-> 0, db |-> db]
    ELSE IF fail \/ UniqueViolation(db, user.username, user.email)
    THEN [raised |-> "", user |-> 0, db |-> db]
    ELSE LET id == Cardinality(DOMAIN db) + 1
             row == [id |-> id, username |-> user.username, email |-> user.email,
                     hashed_password |-> get_password_hash(user.password, salt),
                     is_active |-> TRUE, is_staff |-> user.is_staff,
                     reset_token |-> NoToken]
         IN [raised |-> "", user |-> id,
             db |-> [i \in 1..id |-> IF i = id THEN row ELSE db[i]]]

\* authenticate_user without the password check
authenticate_user_NoPasswordCheck(db, username, password) ==
    get_user_by_username(db, username)

\* crud.authenticate_user: the user's id, or 0 for False
authenticate_user(db, username, password) ==
    LET user == get_user_by_username(db, username)
    IN IF user = 0 THEN 0
       ELSE IF ~verify_password(password, db[user].hashed_password) THEN 0
       ELSE user

\* crud.create_reset_token: sets the token on the session's user object
create_reset_token(user, t) ==
    LET reset_token == create_access_token(user.email, t + ResetTTL)
    IN [token |-> reset_token, user |-> [user EXCEPT !.reset_token = reset_token]]

\* reset_password that leaves the stored reset_token in place
reset_password_KeepToken(db, t, token, new_password, salt, fail) ==
    LET payload == jwt_decode(token, t)
        user == get_user_by_email(db, payload.sub)
    IN IF ~payload.ok THEN [ok |-> FALSE, db |-> db]
       ELSE IF user = 0 THEN [ok |-> FALSE, db |-> db]
       ELSE IF db[user].reset_token # token THEN [ok |-> FALSE, db |-> db]
       ELSE IF fail THEN [ok |-> FALSE, db |-> db]
       ELSE [ok |-> TRUE,
             db |-> [db EXCEPT ![user].hashed_password =
                                   get_password_hash(new_password, salt)]]

\* reset_password that writes the new hash on its own, before the write that
\* clears the token fails
reset_password_TwoWrites(db, t, token, new_password, salt, fail) ==
    LET payload == jwt_decode(token, t)
        user == get_user_by_email(db, payload.sub)
    IN IF ~payload.ok THEN [ok |-> FALSE, db |-> db]
       ELSE IF user = 0 THEN [ok |-> FALSE, db |-> db]
       ELSE IF db[user].reset_token # token THEN [ok |-> FALSE, db |-> db]
       ELSE LET hashed == [db EXCEPT ![user].hashed_password =
                                         get_password_hash(new_password, salt)]
            IN IF fail THEN [ok |-> FALSE, db |-> hashed]
               ELSE [ok |-> TRUE, db |-> [hashed EXCEPT ![user].reset_token = NoToken]]

\* crud.reset_password
reset_password(db, t, token, new_password, salt, fail) ==
    LET payload == jwt_decode(token, t)
        user == get_user_by_email(db, payload.sub)
    IN IF ~payload.ok THEN [ok |-> FALSE, db |-> db]
       ELSE IF user = 0 THEN [ok |-> FALSE, db |-> db]
       ELSE IF db[user].reset_token # token THEN [ok |-> FALSE, db |-> db]
       ELSE LET session ==
                  [db EXCEPT ![user].hashed_password = get_password_hash(new_password, salt),
                             ![user].reset_token = NoToken]
            IN IF fail THEN [ok |-> FALSE, db |-> session_close(db, session)]
               ELSE [ok |-> TRUE, db |-> commit(db, session)]

\* ------------------------------------------------------------- dependencies
\* dependencies.get_current_user: the user's id, or 0 for 401
get_current_user(db, revoked, t, token) ==
    LET payload == jwt_decode(token, t)
    IN IF ~payload.ok THEN 0
       ELSE IF token \in revoked THEN 0
       ELSE get_user_by_username(db, payload.sub)

\* dependencies.add_token_to_blacklist
add_token_to_blacklist(revoked, token) == revoked \cup {token}

Unauthorized == [status |-> 401, detail |-> "Could not validate credentials"]

\* ----------------------------------------------------------------- handlers
\* signup that inserts without looking the username and the email up
signup_NoDuplicateCheck(db, user, salt, fail) ==
    LET id == Cardinality(DOMAIN db) + 1
        row == [id |-> id, username |-> user.username, email |-> user.email,
                hashed_password |-> get_password_hash(user.password, salt),
                is_active |-> TRUE, is_staff |-> FALSE, reset_token |-> NoToken]
    IN [status |-> 200, detail |-> "",
        db |-> [i \in 1..id |-> IF i = id THEN row ELSE db[i]]]

\* main.signup: every exception, its own HTTPExceptions included, becomes the
\* same 400 after a rollback
signup(db, user, salt, fail) ==
    LET conflict == [status |-> 400, detail |-> "Username or Email already exists", db |-> db]
        created == create_user(db, user, salt, fail)
    IN IF get_user_by_username(db, user.username) # 0 THEN conflict
       ELSE IF get_user_by_email(db, user.email) # 0 THEN conflict
       ELSE IF created.raised # "" THEN conflict
       ELSE IF created.user = 0 THEN conflict
       ELSE [status |-> 200, detail |-> "", db |-> created.db]

\* main.login_for_access_token
login_for_access_token(db, t, username, password) ==
    LET user == authenticate_user(db, username, password)
    IN IF user = 0
       THEN [status |-> 401, detail |-> "Incorrect username or password", token |-> NoToken]
       ELSE [status |-> 200, detail |-> "bearer",
             token |-> create_access_token(db[user].username, t + AccessTTL)]

\* main.password_reset_request: no commit before the session is closed
password_reset_request(db, t, email) ==
    LET user == get_user_by_email(db, email)
    IN IF user = 0
       THEN [status |-> 400, detail |-> "Email not registered", token |-> NoToken, db |-> db]
       ELSE LET r == create_reset_token(db[user], t)
                session == [db EXCEPT ![user] = r.user]
            IN [status |-> 200, detail |-> "", token |-> r.token,
                db |-> session_close(db, session)]

\* main.password_reset_confirm
password_reset_confirm(db, t, token, new_password, salt, fail) ==
    LET r == reset_password(db, t, token, new_password, salt, fail)
    IN IF ~r.ok
       THEN [status |-> 400, detail |-> "Invalid token or token expired", db |-> r.db]
       ELSE [status |-> 200, detail |-> "Password reset successful", db |-> r.db]

\* logout that answers without revoking the token
logout_NoRevoke(revoked, token) ==
    [status |-> 200, detail |-> "Logout successful", blacklist |-> revoked]

\* main.logout (after get_current_user accepted the token)
logout(revoked, token) ==
    [status |-> 200, detail |-> "Logout successful",
     blacklist |-> add_token_to_blacklist(revoked, token)]

\* crud.create_product: any failure of the write is rolled back and gives None
crud_create_product(tbl, seq, name, fail) ==
    IF fail THEN [product |-> 0, products |-> tbl, seq |-> seq]
    ELSE [product |-> seq + 1, seq |-> seq + 1,
          products |-> tbl \cup {[id |-> seq + 1, name |-> name, is_active |-> TRUE]}]

\* crud.get_product: the product's id, or 0 for None
get_product(tbl, product_id) ==
    IF \E p \in tbl : p.id = product_id THEN product_id ELSE 0

\* crud.create_order: a failed write (the foreign key on user_id included) gives None
crud_create_order(db, ords, seq, order, fail) ==
    IF fail \/ order.user_id \notin DOMAIN db
    THEN [order |-> 0, orders |-> ords, seq |-> seq]
    ELSE [order |-> seq + 1, seq |-> seq + 1,
          orders |-> ords \cup {[id |-> seq + 1, user_id |-> order.user_id,
                                 product_id |-> order.product_id,
                                 quantity |-> order.quantity, status |-> "pending"]}]

\* crud.get_order: the order row, as a set of at most one row
get_order(ords, order_id) == {o \in ords : o.id = order_id}

\* create_product without the staff check
create_product_NoStaffCheck(tbl, seq, current_user, name, fail) ==
    LET c == crud_create_product(tbl, seq, name, fail)
    IN IF c.product = 0
       THEN [status |-> 500, detail |-> "Internal Server Error",
             products |-> tbl, seq |-> seq]
       ELSE [status |-> 200, detail |-> "", products |-> c.products, seq |-> c.seq]

\* main.create_product
create_product(tbl, seq, current_user, name, fail) ==
    LET c == crud_create_product(tbl, seq, name, fail)
    IN IF ~current_user.is_staff
       THEN [status |-> 403, detail |-> "Not authorized to create products",
             products |-> tbl, seq |-> seq]
       ELSE IF c.product = 0
       THEN [status |-> 500, detail |-> "Internal Server Error",
             products |-> tbl, seq |-> seq]
       ELSE [status |-> 200, detail |-> "", products |-> c.products, seq |-> c.seq]

\* main.delete_product
delete_product(tbl, ords, current_user, product_id, fail) ==
    LET same == [products |-> tbl, orders |-> ords]
    IN IF ~current_user.is_staff
       THEN [status |-> 403, detail |-> "Not authorized to delete products"] @@ same
       ELSE IF get_product(tbl, product_id) = 0
       THEN [status |-> 404, detail |-> "Product not found"] @@ same
       ELSE IF fail
       THEN [status |-> 500, detail |-> "Product deletion failed"] @@ same
       ELSE [status |-> 200, detail |-> "",
             products |-> {p \in tbl : p.id # product_id},
             orders |-> {o \in ords : o.product_id # product_id}]

\* main.create_order: the order's user_id comes from the request body
create_order(db, tbl, ords, seq, order, fail) ==
    LET c == crud_create_order(db, ords, seq, order, fail)
    IN IF get_product(tbl, order.product_id) = 0
       THEN [status |-> 400, detail |-> "Product not found", orders |-> ords, seq |-> seq]
       ELSE IF c.order = 0
       THEN [status |-> 500, detail |-> "Order creation failed", orders |-> ords, seq |-> seq]
       ELSE [status |-> 200, detail |-> "", orders |-> c.orders, seq |-> c.seq]

\* main.read_order
read_order(ords, current_user, order_id) ==
    LET order == get_order(ords, order_id)
    IN IF order = {} THEN [status |-> 404, detail |-> "Order not found"]
       ELSE IF ~current_user.is_staff /\ \A o \in order : o.user_id # current_user.id
       THEN [status |-> 403, detail |-> "Not authorized to view this order"]
       ELSE [status |-> 200, detail |-> ""]

\* main.delete_order: the 404 and the 403 are raised inside the try block, and
\* its "except Exception" turns them into a 500 after a rollback
delete_order(ords, current_user, order_id, fail) ==
    LET order == get_order(ords, order_id)
    IN IF order = {}
       THEN [status |-> 500, detail |-> "Order Not Found", orders |-> ords]
       ELSE IF ~current_user.is_staff /\ \A o \in order : o.user_id # current_user.id
       THEN [status |-> 500, detail |-> "Order Not Found", orders |-> ords]
       ELSE IF fail
       THEN [status |-> 500, detail |-> "Order deletion failed", orders |-> ords]
       ELSE [status |-> 200, detail |-> "", orders |-> ords \ order]

\* ------------------------------------------------------------ initial state
\* a reset token issued half an hour before the process started
OldResetToken(email) == create_access_token(email, ResetTTL - 1)

InitialHash == get_password_hash("pw1", "s1")

\* the rows found in the users table: the admin of init_db.py and a customer,
\* the customer with or without a pending reset token
InitialUsers ==
    { [i \in 1..2 |->
         IF i = 1
         THEN [id |-> 1, username |-> "admin", email |-> "admin@example.com",
               hashed_password |-> InitialHash, is_active |-> TRUE,
               is_staff |-> TRUE, reset_token |-> t1]
         ELSE [id |-> 2, username |-> "alice", email |-> "alice@x.com",
               hashed_password |-> InitialHash, is_active |-> TRUE,
               is_staff |-> FALSE, reset_token |-> t2]] :
      t1 \in {NoToken},
      t2 \in {NoToken, OldResetToken("alice@x.com")} }

StoredTokens(db) == {db[i].reset_token : i \in DOMAIN db} \ {NoToken}

\* the request record kept in "last"
Blank ==
    [op |-> "start", status |-> 0, detail |-> "", token |-> NoToken, caller |-> 0,
     username |-> "", email |-> "", password |-> "", target |-> 0, fault |-> FALSE]

Init ==
    /\ users \in InitialUsers
    /\ products = {}
    /\ orders = {}
    /\ product_seq = 0
    /\ order_seq = 0
    /\ blacklist = {}
    /\ now = 0
    /\ issued = StoredTokens(users)
    /\ last = Blank
    /\ loggedOut = {}
    /\ consumed = {}
    /\ everStored = StoredTokens(users)
    /\ requested = {}

\* what a client may present as a token
Presentable == issued \cup {Forged}

\* the process hands out at most MaxTokens tokens
MayIssue(token) == token \in issued \/ Cardinality(issued \ everStored) < MaxTokens

\* ------------------------------------------------------------------ actions
Tick ==
    /\ now < MaxTime
    /\ now' = now + 1
    /\ last' = [Blank EXCEPT !.op = "tick"]
    /\ UNCHANGED <<users, products, orders, product_seq, order_seq, blacklist,
                   issued, loggedOut, consumed, everStored, requested>>

\* POST /signup/
Signup ==
    \E username \in Usernames, email \in Emails, password \in NewPasswords,
       salt \in Salts :
        LET r == signup(users, UserCreate(username, email, password), salt, FALSE)
        IN /\ users' = r.db
           /\ last' = [Blank EXCEPT !.op = "signup", !.status = r.status,
                                    !.detail = r.detail, !.username = username,
                                    !.email = email, !.password = password]
           /\ UNCHANGED <<products, orders, product_seq, order_seq, blacklist, now,
                          issued, loggedOut, consumed, everStored, requested>>

\* POST /token
Login ==
    \E username \in Usernames, password \in Passwords :
        LET r == login_for_access_token(users, now, username, password)
        IN /\ r.status = 200 => MayIssue(r.token)
           /\ issued' = IF r.status = 200 THEN issued \cup {r.token} ELSE issued
           /\ last' = [Blank EXCEPT !.op = "login", !.status = r.status,
                                    !.detail = r.detail, !.token = r.token,
                                    !.username = username, !.password = password]
           /\ UNCHANGED <<users, products, orders, product_seq, order_seq, blacklist,
                          now, loggedOut, consumed, everStored, requested>>

\* POST /password-reset-request/
PasswordResetRequest ==
    \E email \in Emails :
        LET r == password_reset_request(users, now, email)
        IN /\ r.status = 200 => MayIssue(r.token)
           /\ users' = r.db
           /\ issued' = IF r.status = 200 THEN issued \cup {r.token} ELSE issued
           /\ requested' = IF r.status = 200 THEN requested \cup {r.token} ELSE requested
           /\ everStored' = everStored \cup StoredTokens(users')
           /\ last' = [Blank EXCEPT !.op = "password_reset_request",
                                    !.status = r.status, !.detail = r.detail,
                                    !.token = r.token, !.email = email]
           /\ UNCHANGED <<products, orders, product_seq, order_seq, blacklist, now,
                          loggedOut, consumed>>

\* POST /password-reset-confirm/
PasswordResetConfirm ==
    \E token \in Presentable, new_password \in NewPasswords, salt \in Salts,
       fail \in BOOLEAN :
        LET r == password_reset_confirm(users, now, token, new_password, salt, fail)
        IN /\ users' = r.db
           /\ consumed' = IF r.status = 200 THEN consumed \cup {token} ELSE consumed
           /\ everStored' = everStored \cup StoredTokens(users')
           /\ last' = [Blank EXCEPT !.op = "password_reset_confirm",
                                    !.status = r.status, !.detail = r.detail,
                                    !.token = token, !.password = new_password,
                                    !.fault = fail]
           /\ UNCHANGED <<products, orders, product_seq, order_seq, blacklist, now,
                          issued, loggedOut, requested>>

\* GET /users/profile/: authenticate_request and nothing else
ReadUsersMe ==
    \E token \in Presentable :
        LET current_user == get_current_user(users, blacklist, now, token)
            r == IF current_user = 0 THEN Unauthorized
                 ELSE [status |-> 200, detail |-> ""]
        IN /\ last' = [Blank EXCEPT !.op = "read_users_me", !.status = r.status,
                                    !.detail = r.detail, !.token = token,
                                    !.caller = current_user]
           /\ UNCHANGED <<users, products, orders, product_seq, order_seq, blacklist,
                          now, issued, loggedOut, consumed, everStored, requested>>

\* POST /logout/
Logout ==
    \E token \in Presentable :
        LET current_user == get_current_user(users, blacklist, now, token)
            r == IF current_user = 0 THEN Unauthorized @@ [blacklist |-> blacklist]
                 ELSE logout(blacklist, token)
        IN /\ blacklist' = r.blacklist
           /\ loggedOut' = IF current_user = 0 THEN loggedOut ELSE loggedOut \cup {token}
           /\ last' = [Blank EXCEPT !.op = "logout", !.status = r.status,
                                    !.detail = r.detail, !.token = token,
                                    !.caller = current_user]
           /\ UNCHANGED <<users, products, orders, product_seq, order_seq, now,
                          issued, consumed, everStored, requested>>

\* POST /products/
CreateProduct ==
    \E token \in Presentable, name \in ProductNames, fail \in BOOLEAN :
        LET current_user == get_current_user(users, blacklist, now, token)
            r == IF current_user = 0
                 THEN Unauthorized @@ [products |-> products, seq |-> product_seq]
                 ELSE create_product(products, product_seq, users[current_user], name, fail)
        IN /\ r.seq <= MaxProducts
           /\ products' = r.products
           /\ product_seq' = r.seq
           /\ last' = [Blank EXCEPT !.op = "create_product", !.status = r.status,
                                    !.detail = r.detail, !.token = token,
                                    !.caller = current_user, !.fault = fail]
           /\ UNCHANGED <<users, orders, order_seq, blacklist, now, issued,
                          loggedOut, consumed, everStored, requested>>

\* DELETE /products/{product_id}
DeleteProduct ==
    \E token \in Presentable, product_id \in 1..MaxProducts, fail \in BOOLEAN :
        LET current_user == get_current_user(users, blacklist, now, token)
            r == IF current_user = 0
                 THEN Unauthorized @@ [products |-> products, orders |-> orders]
                 ELSE delete_product(products, orders, users[current_user], product_id, fail)
        IN /\ products' = r.products
           /\ orders' = r.orders
           /\ last' = [Blank EXCEPT !.op = "delete_product", !.status = r.status,
                                    !.detail = r.detail, !.token = token,
                                    !.caller = current_user, !.target = product_id,
                                    !.fault = fail]
           /\ UNCHANGED <<users, product_seq, order_seq, blacklist, now, issued,
                          loggedOut, consumed, everStored, requested>>

\* POST /orders/
CreateOrder ==
    \E token \in Presentable, user_id \in 1..3, product_id \in 1..MaxProducts,
       fail \in BOOLEAN :
        LET current_user == get_current_user(users, blacklist, now, token)
            order == [user_id |-> user_id, product_id |-> product_id, quantity |-> 1]
            r == IF current_user = 0
                 THEN Unauthorized @@ [orders |-> orders, seq |-> order_seq]
                 ELSE create_order(users, products, orders, order_seq, order, fail)
        IN /\ r.seq <= MaxOrders
           /\ orders' = r.orders
           /\ order_seq' = r.seq
           /\ last' = [Blank EXCEPT !.op = "create_order", !.status = r.status,
                                    !.detail = r.detail, !.token = token,
                                    !.caller = current_user, !.target = user_id,
                                    !.fault = fail]
           /\ UNCHANGED <<users, products, product_seq, blacklist, now, issued,
                          loggedOut, consumed, everStored, requested>>

\* GET /orders/{order_id}
ReadOrder ==
    \E token \in Presentable, order_id \in 1..MaxOrders :
        LET current_user == get_current_user(users, blacklist, now, token)
            r == IF current_user = 0 THEN Unauthorized
                 ELSE read_order(orders, users[current_user], order_id)
        IN /\ last' = [Blank EXCEPT !.op = "read_order", !.status = r.status,
                                    !.detail = r.detail, !.token = token,
                                    !.caller = current_user, !.target = order_id]
           /\ UNCHANGED <<users, products, orders, product_seq, order_seq, blacklist,
                          now, issued, loggedOut, consumed, everStored, requested>>

\* DELETE /orders/{order_id}
DeleteOrder ==
    \E token \in Presentable, order_id \in 1..MaxOrders, fail \in BOOLEAN :
        LET current_user == get_current_user(users, blacklist, now, token)
            r == IF current_user = 0 THEN Unauthorized @@ [orders |-> orders]
                 ELSE delete_order(orders, users[current_user], order_id, fail)
        IN /\ orders' = r.orders
           /\ last' = [Blank EXCEPT !.op = "delete_order", !.status = r.status,
                                    !.detail = r.detail, !.token = token,
                                    !.caller = current_user, !.target = order_id,
                                    !.fault = fail]
           /\ UNCHANGED <<users, products, product_seq, order_seq, blacklist, now,
                          issued, loggedOut, consumed, everStored, requested>>

\* the authentication and password-reset endpoints, with the clock
AuthNext ==
    \/ Tick
    \/ Signup
    \/ Login
    \/ PasswordResetRequest
    \/ PasswordResetConfirm
    \/ ReadUsersMe
    \/ Logout

\* the product and order endpoints, with the login that gives their callers a token
ShopNext ==
    \/ Login
    \/ CreateProduct
    \/ DeleteProduct
    \/ CreateOrder
    \/ ReadOrder
    \/ DeleteOrder

Next == AuthNext \/ ShopNext

\* the whole service
Spec == Init /\ [][Next]_vars

\* the service with its clients calling the authentication endpoints only
AuthSpec == Init /\ [][AuthNext]_vars

\* the service with its clients calling the shop endpoints only, within one
\* token lifetime
ShopSpec == Init /\ [][ShopNext]_vars

\* =================================================================== claims

\* C1: a signup whose username and email are not yet registered succeeds and
\* stores the user, and a login issued afterwards with the same username and
\* password returns a bearer token.
C1_SignupThenLogin ==
    [][(/\ last'.op = "signup"
        /\ get_user_by_username(users, last'.username) = 0
        /\ get_user_by_email(users, last'.email) = 0)
       => /\ last'.status = 200
          /\ get_user_by_username(users', last'.username) # 0
          /\ get_user_by_email(users', last'.email) # 0
          /\ login_for_access_token(users', now', last'.username,
                                    last'.password).status = 200]_vars

\* C2: a token that logout accepted never authenticates again, expired or not;
\* a token that fails to authenticate (so also one a logout call rejected) never
\* authenticates later; the revocation set only grows, and a logout with a token
\* already logged out leaves it unchanged.
C2_LogoutRevokes ==
    /\ [](\A t \in loggedOut : get_current_user(users, blacklist, now, t) = 0)
    /\ [][(last'.op \in {"read_users_me", "logout"} /\ last'.token \in loggedOut)
          => last'.status = 401 /\ last'.caller = 0]_vars
    /\ [][\A t \in Presentable :
            get_current_user(users, blacklist, now, t) = 0
            => get_current_user(users', blacklist', now', t) = 0]_vars
    /\ [][blacklist \subseteq blacklist']_vars
    /\ [][(last'.op = "logout" /\ last'.token \in loggedOut)
          => blacklist' = blacklist]_vars

\* C2 witness: an authenticate_request answered 401 for a logged-out token that
\* is validly signed, unexpired and names a stored user
C2_Witness ==
    /\ last.op = "read_users_me"
    /\ last.token \in loggedOut
    /\ last.status = 401
    /\ jwt_decode(last.token, now).ok
    /\ get_user_by_username(users, last.token.sub) # 0

\* C3: for a registered email, a password-reset-request followed immediately by
\* a password-reset-confirm with the returned token succeeds: the returned token
\* is the one stored on the user when the confirm runs, the hash becomes the
\* hash of the new password and the stored reset_token is cleared.
C3_RequestThenConfirm ==
    [][(/\ last.op = "password_reset_request"
        /\ last.status = 200
        /\ last'.op = "password_reset_confirm"
        /\ last'.token = last.token
        /\ ~last'.fault)
       => /\ last'.status = 200
          /\ \E i \in DOMAIN users :
                /\ users[i].email = last.email
                /\ users[i].reset_token = last.token
                /\ verify_password(last'.password, users'[i].hashed_password)
                /\ users'[i].reset_token = NoToken]_vars

\* C4: a confirm with a token an earlier confirm succeeded with, or with a
\* validly signed token that was never stored on a user, fails with
\* InvalidToken and changes no user row.
C4_SingleUse ==
    [][(/\ last'.op = "password_reset_confirm"
        /\ \/ last'.token \in consumed
           \/ last'.token.sig = SECRET_KEY /\ last'.token \notin everStored)
       => /\ last'.status = 400
          /\ last'.detail = "Invalid token or token expired"
          /\ users' = users]_vars

\* C4 witness: a confirm refused for an unexpired token that an earlier confirm
\* succeeded with
C4_Witness ==
    /\ last.op = "password_reset_confirm"
    /\ last.token \in consumed
    /\ last.status = 400
    /\ ~last.fault
    /\ jwt_decode(last.token, now).ok

UniqueUsers ==
    \A i, j \in DOMAIN users :
        i # j => users[i].username # users[j].username /\ users[i].email # users[j].email

\* C5: usernames and emails are unique among the stored users in every reachable
\* state, and a signup whose username or email is registered fails with Conflict
\* (400) and leaves the stored users unchanged.
C5_UniqueUsers ==
    /\ []UniqueUsers
    /\ [][(/\ last'.op = "signup"
           /\ \/ get_user_by_username(users, last'.username) # 0
              \/ get_user_by_email(users, last'.email) # 0)
          => last'.status = 400 /\ users' = users]_vars

\* C5 witness: a signup refused for a fresh username with a registered email
C5_Witness ==
    /\ last.op = "signup"
    /\ last.status = 400
    /\ get_user_by_username(users, last.username) = 0
    /\ get_user_by_email(users, last.email) # 0

\* the owner-or-staff rule for the caller of a request on an order
MayAccessOrder(db, ords, caller, order_id) ==
    \/ db[caller].is_staff
    \/ \E o \in get_order(ords, order_id) : o.user_id = db[caller].id

\* C6: for an existing order, read_order and delete_order succeed iff the
\* authenticated user is staff or owns the order; otherwise both fail with
\* Forbidden (403) and the order stays stored.
C6_OwnerOrStaff ==
    [][(/\ last'.op \in {"read_order", "delete_order"}
        /\ last'.caller # 0
        /\ ~last'.fault
        /\ get_order(orders, last'.target) # {})
       => IF MayAccessOrder(users, orders, last'.caller, last'.target)
          THEN last'.status = 200
          ELSE last'.status = 403 /\ orders' = orders]_vars

\* C7: a login with a wrong password for an existing username and a login with
\* a username that does not exist both get the same 401 with the same detail,
\* no token, and change no stored state.
C7_LoginFailure ==
    [][(/\ last'.op = "login"
        /\ \A i \in DOMAIN users :
              \/ users[i].username # last'.username
              \/ ~verify_password(last'.password, users[i].hashed_password))
       => /\ last'.status = 401
          /\ last'.detail = "Incorrect username or password"
          /\ last'.token = NoToken
          /\ UNCHANGED <<users, products, orders, product_seq, order_seq,
                         blacklist, issued>>]_vars

\* C7 witness: a login refused for a stored username (so for its password)
C7_Witness ==
    /\ last.op = "login"
    /\ last.status = 401
    /\ get_user_by_username(users, last.username) # 0

\* C8: create_product and delete_product called by an authenticated non-staff
\* user fail with Forbidden (403) and leave products and orders unchanged, and
\* the set of products changes only in a product call made by a staff user.
C8_ProductsStaffOnly ==
    /\ [][(/\ last'.op \in {"create_product", "delete_product"}
           /\ last'.caller # 0
           /\ ~users[last'.caller].is_staff)
          => /\ last'.status = 403
             /\ products' = products
             /\ orders' = orders]_vars
    /\ [][products' # products
          => /\ last'.op \in {"create_product", "delete_product"}
             /\ last'.caller # 0
             /\ users[last'.caller].is_staff]_vars

\* C8 witness: a create_product refused for an authenticated non-staff caller
C8_Witness ==
    /\ last.op = "create_product"
    /\ last.caller # 0
    /\ ~users[last.caller].is_staff
    /\ last.status = 403

\* C9: a confirm that fails (a check or the store write) changes no user row; a
\* confirm that succeeds replaces the hash and clears the token of the one user
\* the token was stored on; and a password hash changes only in a successful
\* signup or confirm.
C9_ResetAllOrNothing ==
    /\ [][(last'.op = "password_reset_confirm" /\ last'.status # 200)
          => users' = users]_vars
    /\ [][(last'.op = "password_reset_confirm" /\ last'.fault)
          => last'.status = 400 /\ users' = users]_vars
    /\ [][(last'.op = "password_reset_confirm" /\ last'.status = 200)
          => \E i \in DOMAIN users :
                /\ users[i].reset_token = last'.token
                /\ users'[i].reset_token = NoToken
                /\ verify_password(last'.password, users'[i].hashed_password)
                /\ \A j \in DOMAIN users \ {i} : users'[j] = users[j]]_vars
    /\ [][(\E i \in DOMAIN users :
              users'[i].hashed_password # users[i].hashed_password)
          => /\ last'.op \in {"signup", "password_reset_confirm"}
             /\ last'.status = 200]_vars

\* C9 witness: a confirm whose checks passed and whose store write failed
C9_Witness ==
    /\ last.op = "password_reset_confirm"
    /\ last.fault
    /\ last.status = 400
    /\ jwt_decode(last.token, now).ok
    /\ \E i \in DOMAIN users : users[i].reset_token = last.token

\* a requested token that a later request for the same email replaced
Superseded(t) == \E t2 \in requested : t2.sub = t.sub /\ t2.exp > t.exp

\* C10: after two reset requests for one email that returned T1 and then T2, a
\* confirm with the superseded T1 fails with InvalidToken, and a confirm with
\* T2 (unexpired, not yet used) succeeds.
C10_OnlyLatestToken ==
    [][(/\ last'.op = "password_reset_confirm"
        /\ ~last'.fault
        /\ last'.token \in requested
        /\ \E t \in requested : t.sub = last'.token.sub /\ t # last'.token)
       => IF Superseded(last'.token)
          THEN last'.status = 400
          ELSE (jwt_decode(last'.token, now).ok /\ last'.token \notin consumed)
               => last'.status = 200]_vars

====
